---- MODULE Spec2Model ----
(***************************************************************************)
(* Urban Tank Warfare: the authoritative multiplayer game server and the   *)
(* browser's NetworkManager.                                               *)
(*                                                                         *)
(* The model follows src/unnamed/part_003 (the socket.io game server) and  *)
(* src/src/shared/constants.js.  Every socket handler and the periodic     *)
(* updateGameState callback is one atomic action: Node runs each callback  *)
(* to completion on a single thread.  Date.now() is the variable now,      *)
(* which only the environment action Advance changes.  Math.random() is    *)
(* an input of the actions that call getRandomSpawnPosition.               *)
(*                                                                         *)
(* An exception that escapes a callback is not caught anywhere in the      *)
(* source, so Node terminates the process: threw becomes TRUE, the state   *)
(* is left as it was at the throw, and no further callback runs.           *)
(*                                                                         *)
(* The second half follows the NetworkManager class of                     *)
(* src/public/js/camera.js.  Server and client are separate programs: the  *)
(* server specifications leave the client's variables alone and the client *)
(* specifications the server's.                                            *)
(***************************************************************************)
EXTENDS Integers, Sequences, FiniteSets, TLC

\* ------------------------------------------------------------------------
\* Program constants (src/src/shared/constants.js and literals of part_003)
\* ------------------------------------------------------------------------
TANK_HEALTH == 100
BULLET_DAMAGE == 20
RELOAD_TIME == 1000
RESPAWN_TIME == 5000
BULLET_SPEED == 20
BULLET_LIFETIME == 3000
MAP_SIZE == 200
MaxAttempts == 10
CenterHalfWidth == 20
MinSpawnDistSq == 400
HitRadiusSq == 25

\* ------------------------------------------------------------------------
\* Client constants (literals of src/public/js/camera.js, NetworkManager)
\* ------------------------------------------------------------------------
maxConnectionAttempts == 5
InitialReconnectDelay == 3000
MaxReconnectDelay == 30000
inputThrottleTime == 50
MaxPendingAge == 5000
NormalClosure == 1000
AbnormalClosure == 1006
pingFrequency == 5000

\* ------------------------------------------------------------------------
\* Bounds of the model
\* ------------------------------------------------------------------------
MaxConns == 2
\* bullets in flight beyond which no further shot is delivered
MaxBullets == 1
\* Date.now() when the module is loaded
StartTime == 1000
\* how far the clock runs under Spec and under DuelSpec
Horizon == 4000
DuelHorizon == 10000
\* how far the clock runs under MeleeSpec
MeleeHorizon == 1000
\* the timer fires at least once per clock step
MaxLag == 1000
\* connections, bullets in flight and how far the clock runs for a player
\* that fires whenever it has reloaded
ArsenalConns == 1
ArsenalBullets == 5
ArsenalHorizon == 5000

\* Client: WebSocket objects ever created in a session of inputs, in a
\* session of reconnections and in an outage, sendInput calls made while
\* connected in a session of inputs and in a session of reconciliations,
\* distinct input values, the browser's clock at construction and how far
\* it runs in a session of inputs and in a session of reconciliations.
SessionSockets == 2
MaxSockets == 3
OutageSockets == 5
MaxCalls == 3
ReconcileCalls == 2
\* Client: sendInput calls and PLAYER_SHOT messages in a session of shots,
\* WebSocket objects in a session of shots or of frames, and how far the
\* clock runs in a session of frames.
FireCalls == 2
MaxShots == 2
FrameSockets == 1
FrameHorizon == 5000
MaxInput == 2
\* Delayed sends pending at once, the sockets of a session with artificial
\* send delay, and how long its clock runs.
MaxDelayed == 2
LatencySockets == 2
LatencyHorizon == 200
ClientStart == 1000
InputHorizon == 75
ReconcileHorizon == 7500
InputSteps == {25}
ReconcileSteps == {2500}

ConnIds == 1..MaxConns
TimeSteps == {1000}

\* ------------------------------------------------------------------------
\* JavaScript values
\* ------------------------------------------------------------------------
\* A vector {x, z} as the code reads it.  k = "undef": the value itself is
\* undefined (reading .x throws a TypeError); k = "nan": an object whose x
\* and z are not numbers (arithmetic yields NaN, every comparison with NaN is
\* false); k = "num": an object with numeric x and z.
Num(x, z) == [k |-> "num", x |-> x, z |-> z]
NaNVec == [k |-> "nan", x |-> 0, z |-> 0]
UndefVec == [k |-> "undef", x |-> 0, z |-> 0]

\* A rotation {y} as carried by PLAYER_MOVED; the server only stores it.
Rot(y) == [k |-> "num", y |-> y]
UndefRot == [k |-> "undef", y |-> 0]

\* { ...v }: spreading undefined yields an empty object
Spread(v) == IF v.k = "undef" THEN NaNVec ELSE v

\* dx*dx + dz*dz < limit, false when either operand is NaN
DistSqLess(p, q, limit) ==
    /\ p.k = "num"
    /\ q.k = "num"
    /\ (p.x - q.x) * (p.x - q.x) + (p.z - q.z) * (p.z - q.z) < limit

Abs(n) == IF n < 0 THEN -n ELSE n

\* A message payload that is absent (socket.emit(type) without data)
NoData == [present |-> FALSE]

\* ------------------------------------------------------------------------
\* Inputs enumerated by the model
\* ------------------------------------------------------------------------
\* Values of (Math.random() * mapSize) - halfMapSize, which lies in
\* [-MAP_SIZE/2, MAP_SIZE/2)
SpawnDraws == {Num(0, 0), Num(-100, 60)}

\* The positions drawn by the attempts of one getRandomSpawnPosition call:
\* MaxAttempts - 1 times a, then b.
DrawSeqs == {[i \in 1..MaxAttempts |-> IF i < MaxAttempts THEN a ELSE b] :
                a \in SpawnDraws, b \in SpawnDraws}
RandomInputs == [draws : DrawSeqs, fallback : SpawnDraws]

\* Every payload names player 1 in its id field; the server never reads it.
MovePayloads ==
    {NoData,
     [present |-> TRUE, id |-> 1, position |-> Num(150, 0),
      rotation |-> Rot(90), turretRotation |-> Rot(90)],
     [present |-> TRUE, id |-> 1, position |-> UndefVec,
      rotation |-> UndefRot, turretRotation |-> UndefRot]}

ShotPayloads ==
    {NoData,
     [present |-> TRUE, id |-> 1, position |-> Num(-100, 40), direction |-> Num(0, 1)],
     [present |-> TRUE, id |-> 1, position |-> UndefVec, direction |-> UndefVec]}

ChatPayloads ==
    {NoData, [present |-> TRUE, id |-> 1, text |-> "hi"]}

\* ------------------------------------------------------------------------
\* State
\* ------------------------------------------------------------------------
VARIABLES
    now,            \* Date.now()
    lastUpdateTime, \* gameState.lastUpdateTime
    nextId,         \* the id the next accepted socket gets (ids are never reused)
    connected,      \* sockets that are connected
    players,        \* gameState.players: socket id -> player record
    bullets,        \* gameState.bullets, in insertion order
    out,            \* messages emitted by the callback that ran last
    threw,          \* an exception escaped a callback
    last            \* the callback that ran last: its kind, its socket, and for
                    \* a tick the number of bullets it dropped for their age

serverVars == <<now, lastUpdateTime, nextId, connected, players, bullets, out, threw, last>>

\* ========================================================================
\* The client: NetworkManager (src/public/js/camera.js)
\* ========================================================================
\* One NetworkManager in a browser.  Every method call, WebSocket event
\* listener and timer callback is one atomic action.  Date.now() is the
\* variable clientNow.  The WebSocket objects are the environment: a socket
\* that is connecting opens or fails, a failure fires the error event and
\* then the close event, as the WebSocket interface prescribes, and an open
\* socket can be closed by either side.  The listeners stay attached to a
\* socket after this.socket has been replaced.  The ping interval and the
\* debug options (packetLoss and simulateLatency are 0) are left out.

\* The unit of reconnectDelay is 1/DelayScale ms, so that multiplying by 1.5
\* is exact up to MaxReconnectDelay; setTimeout truncates to whole ms.
DelayScale == 4

\* Close codes: the one of a clean close, and the one the browser reports
\* when the connection was lost or could not be made.
CloseCodes == {NormalClosure, AbnormalClosure}

\* Values of inputState: small integers; [] and null for inputBuffer.
Inputs == 1..MaxInput
EmptyArray == 0
Null == -1

VARIABLES
    nm,          \* the fields of the NetworkManager
    clientNow,   \* Date.now() in the browser
    webSockets,  \* the WebSocket objects created so far: their states
    timers,      \* pending setTimeout callbacks of handleDisconnect
    wire,        \* PLAYER_MOVED messages that socket.send put on the wire
    delayed,     \* pending setTimeout callbacks of sendMessage
    heard,       \* callbacks triggered by the step that ran last
    trail        \* history: the step that ran last, the sendInput calls made
                 \* while connected, the reconnect delays scheduled, and the
                 \* number of 'Max reconnection attempts reached' errors
                 \* surfaced and whether a socket closed by disconnect()
                 \* has reported code 1000, both since the application
                 \* last called connect()

clientVars == <<nm, clientNow, webSockets, timers, wire, delayed, heard, trail>>

NoPendingActions == [i \in {} |-> 0]

\* this.players = {}: player data by id
NoPlayers == [i \in {} |-> FALSE]

constructor ==
    /\ nm = [socket |-> 0,
             connected |-> FALSE,
             playerId |-> Null,
             players |-> NoPlayers,
             connectionAttempts |-> 0,
             reconnectDelay |-> InitialReconnectDelay * DelayScale,
             latency |-> 0,
             lastPingTime |-> 0,
             pingInterval |-> Null,
             inputBuffer |-> EmptyArray,
             lastInputTime |-> 0,
             pendingActions |-> NoPendingActions,
             clientSequence |-> 0,
             serverSequence |-> 0]
    /\ clientNow = ClientStart
    /\ webSockets = <<>>
    /\ timers = <<>>
    /\ wire = <<>>
    /\ delayed = <<>>
    /\ heard = <<>>
    /\ trail = [op |-> "init", sock |-> 0, code |-> 0, calls |-> <<>>,
                scheduled |-> <<>>, maxErrors |-> 0, clean |-> FALSE]

Step(op, sock, code) == [trail EXCEPT !.op = op, !.sock = sock, !.code = code]

vars == <<serverVars, clientVars>>

\* for ... in over gameState.players visits the keys in insertion order; ids
\* are handed out in increasing order and never reused, so that is
\* increasing id order.
RECURSIVE SortedIds(_)
SortedIds(S) ==
    IF S = {} THEN <<>>
    ELSE LET m == CHOOSE a \in S : \A b \in S : a <= b
         IN <<m>> \o SortedIds(S \ {m})

PlayerOrder(ps) == SortedIds(DOMAIN ps)

EmptyPlayers == [i \in {} |-> 0]

\* Outbound messages.  to: "all" (io.emit), "others" (socket.broadcast.emit),
\* "self" (socket.emit); from: the socket whose handler emits, 0 for the timer.
Msg(type, to, from, body) == [type |-> type, to |-> to, from |-> from, body |-> body]

Snapshot(ps, bs) == [players |-> ps, bullets |-> bs]

\* ------------------------------------------------------------------------
\* getRandomSpawnPosition
\* ------------------------------------------------------------------------
InCenterComparisonsReversed(p) == Abs(p.x) > CenterHalfWidth /\ Abs(p.z) > CenterHalfWidth
InCenter(p) == Abs(p.x) < CenterHalfWidth /\ Abs(p.z) < CenterHalfWidth

\* The inner loop over gameState.players from index i on: "far", "near"
\* (break), or "throw" when player.position is undefined.
RECURSIVE FarEnoughFrom(_, _, _, _)
FarEnoughFrom(ps, order, i, position) ==
    IF i > Len(order) THEN "far"
    ELSE LET player == ps[order[i]]
         IN IF player.position.k = "undef" THEN "throw"
            ELSE IF DistSqLess(player.position, position, MinSpawnDistSq) THEN "near"
            ELSE FarEnoughFrom(ps, order, i + 1, position)

\* Attempts i..MaxAttempts, then the fallback.
RECURSIVE SpawnAttempt(_, _, _)
SpawnAttempt(ps, rnd, i) ==
    IF i > MaxAttempts THEN [threw |-> FALSE, position |-> rnd.fallback]
    ELSE LET position == rnd.draws[i]
         IN IF InCenter(position) THEN SpawnAttempt(ps, rnd, i + 1)
            ELSE LET far == FarEnoughFrom(ps, PlayerOrder(ps), 1, position)
                 IN CASE far = "throw" -> [threw |-> TRUE, position |-> UndefVec]
                      [] far = "far" -> [threw |-> FALSE, position |-> position]
                      [] OTHER -> SpawnAttempt(ps, rnd, i + 1)

getRandomSpawnPosition(ps, rnd) == SpawnAttempt(ps, rnd, 1)

\* ------------------------------------------------------------------------
\* addPlayer
\* ------------------------------------------------------------------------
NewPlayer(playerId, position) ==
    [id |-> playerId,
     position |-> position,
     rotation |-> Rot(0),
     turretRotation |-> Rot(0),
     health |-> TANK_HEALTH,
     score |-> 0,
     lastShotTime |-> 0,
     respawnTime |-> 0,
     isAlive |-> TRUE]

\* gameState.players[playerId] = {...}
PutPlayer(ps, playerId, player) ==
    [i \in DOMAIN ps \cup {playerId} |-> IF i = playerId THEN player ELSE ps[i]]

\* delete gameState.players[playerId]
RemovePlayer(ps, playerId) == [i \in DOMAIN ps \ {playerId} |-> ps[i]]

\* ------------------------------------------------------------------------
\* Initial state: the module has been loaded, nobody is connected
\* ------------------------------------------------------------------------
Init ==
    /\ now = StartTime
    /\ lastUpdateTime = StartTime
    /\ nextId = 1
    /\ connected = {}
    /\ players = EmptyPlayers
    /\ bullets = <<>>
    /\ out = <<>>
    /\ threw = FALSE
    /\ last = [op |-> "init", conn |-> 0, aged |-> 0]
    /\ constructor

\* ------------------------------------------------------------------------
\* io.on('connection')
\* ------------------------------------------------------------------------
Connect(rnd, maxConns) ==
    /\ ~threw
    /\ UNCHANGED clientVars
    /\ nextId <= maxConns
    /\ LET id == nextId
           spawn == getRandomSpawnPosition(players, rnd)
           player == NewPlayer(id, spawn.position)
       IN /\ nextId' = id + 1
          /\ connected' = connected \cup {id}
          /\ last' = [op |-> "connect", conn |-> id, aged |-> 0]
          /\ IF spawn.threw
             THEN /\ threw' = TRUE
                  /\ players' = players
                  /\ out' = <<>>
             ELSE /\ threw' = FALSE
                  /\ players' = PutPlayer(players, id, player)
                  /\ out' = <<Msg("PLAYER_JOINED", "all", id, player),
                              Msg("GAME_STATE", "self", id,
                                  Snapshot(players', bullets))>>
    /\ UNCHANGED <<now, lastUpdateTime, bullets>>

\* ------------------------------------------------------------------------
\* socket.on('disconnect')
\* ------------------------------------------------------------------------
Disconnect(c) ==
    /\ ~threw
    /\ UNCHANGED clientVars
    /\ c \in connected
    /\ connected' = connected \ {c}
    /\ players' = RemovePlayer(players, c)
    /\ out' = <<Msg("PLAYER_LEFT", "all", c, [id |-> c])>>
    /\ last' = [op |-> "disconnect", conn |-> c, aged |-> 0]
    /\ UNCHANGED <<now, lastUpdateTime, nextId, bullets, threw>>

\* ------------------------------------------------------------------------
\* socket.on(PLAYER_MOVED), socket.on(PLAYER_SHOT), socket.on(CHAT_MESSAGE)
\* ------------------------------------------------------------------------
\* The handlers are closures over the socket: the player they act on is
\* socket.id, whatever the payload says.
ActingIdFromPayload(c, data) == IF data.present THEN data.id ELSE c
ActingId(c, data) == c

\* The id field of a relayed chat message: socket.id
ChatSenderFromPayload(c, data) == IF data.present THEN data.id ELSE c
ChatSender(c, data) == c

\* The sockets whose handlers are registered (the connection callback ran)
Registered == 1..(nextId - 1)

PlayerMoved(c, data) ==
    /\ ~threw
    /\ UNCHANGED clientVars
    /\ c \in Registered
    /\ last' = [op |-> "move", conn |-> c, aged |-> 0]
    /\ LET id == ActingId(c, data)
       IN IF id \in DOMAIN players /\ players[id].isAlive
          THEN IF ~data.present
               THEN \* data.position on undefined
                    /\ threw' = TRUE
                    /\ players' = players
                    /\ out' = <<>>
               ELSE /\ threw' = FALSE
                    /\ players' = [players EXCEPT
                                     ![id].position = data.position,
                                     ![id].rotation = data.rotation,
                                     ![id].turretRotation = data.turretRotation]
                    /\ out' = <<Msg("PLAYER_MOVED", "others", c,
                                    [id |-> id,
                                     position |-> data.position,
                                     rotation |-> data.rotation,
                                     turretRotation |-> data.turretRotation])>>
          ELSE /\ out' = <<>>
               /\ UNCHANGED <<players, threw>>
    /\ UNCHANGED <<now, lastUpdateTime, nextId, connected, bullets>>

BulletId(playerId, t) == <<playerId, t>>

\* gameState.bullets[bulletId] = bullet: a new key is appended to the
\* insertion order, an existing key keeps its place.
PutBullet(bs, bullet) ==
    IF \E i \in 1..Len(bs) : bs[i].id = bullet.id
    THEN [i \in 1..Len(bs) |-> IF bs[i].id = bullet.id THEN bullet ELSE bs[i]]
    ELSE Append(bs, bullet)

\* now - player.lastShotTime < RELOAD_TIME
ReloadingReversed(player, t) == t - player.lastShotTime > RELOAD_TIME
Reloading(player, t) == t - player.lastShotTime < RELOAD_TIME

\* The shot passes both early returns of handlePlayerShot
ShotAccepted(playerId) ==
    /\ playerId \in DOMAIN players
    /\ players[playerId].isAlive
    /\ ~Reloading(players[playerId], now)

\* handlePlayerShot(playerId, data)
PlayerShot(c, data, maxBullets) ==
    /\ ~threw
    /\ UNCHANGED clientVars
    /\ c \in Registered
    /\ ShotAccepted(ActingId(c, data)) =>
          \/ Len(bullets) < maxBullets
          \/ BulletId(ActingId(c, data), now) \in {bullets[i].id : i \in 1..Len(bullets)}
    /\ last' = [op |-> "shot", conn |-> c, aged |-> 0]
    /\ LET playerId == ActingId(c, data)
       IN IF playerId \notin DOMAIN players
          THEN /\ out' = <<>>
               /\ UNCHANGED <<players, bullets, threw>>
          ELSE LET player == players[playerId]
               IN IF ~player.isAlive \/ Reloading(player, now)
                  THEN /\ out' = <<>>
                       /\ UNCHANGED <<players, bullets, threw>>
                  ELSE /\ players' = [players EXCEPT ![playerId].lastShotTime = now]
                       /\ IF ~data.present
                          THEN \* data.position on undefined
                               /\ threw' = TRUE
                               /\ bullets' = bullets
                               /\ out' = <<>>
                          ELSE LET bulletId == BulletId(playerId, now)
                                   bullet == [id |-> bulletId,
                                              playerId |-> playerId,
                                              position |-> Spread(data.position),
                                              direction |-> Spread(data.direction),
                                              createdAt |-> now,
                                              damage |-> BULLET_DAMAGE]
                               IN /\ threw' = FALSE
                                  /\ bullets' = PutBullet(bullets, bullet)
                                  /\ out' = <<Msg("PLAYER_SHOT", "all", c,
                                                  [id |-> playerId,
                                                   bulletId |-> bulletId,
                                                   position |-> data.position,
                                                   direction |-> data.direction])>>
    /\ UNCHANGED <<now, lastUpdateTime, nextId, connected>>

ChatMessage(c, data) ==
    /\ ~threw
    /\ UNCHANGED clientVars
    /\ c \in Registered
    /\ last' = [op |-> "chat", conn |-> c, aged |-> 0]
    /\ IF ~data.present
       THEN \* data.text on undefined
            /\ threw' = TRUE
            /\ out' = <<>>
       ELSE /\ threw' = FALSE
            /\ out' = <<Msg("CHAT_MESSAGE", "all", c,
                            [id |-> ChatSender(c, data),
                             text |-> data.text,
                             timestamp |-> now])>>
    /\ UNCHANGED <<now, lastUpdateTime, nextId, connected, players, bullets>>

\* A 'ping' event from connection c.  The connection block registers
\* listeners for PLAYER_MOVED, PLAYER_SHOT, CHAT_MESSAGE and disconnect only,
\* so the event runs no code.
Ping(c) ==
    /\ ~threw
    /\ UNCHANGED clientVars
    /\ c \in connected
    /\ last' = [op |-> "ping", conn |-> c, aged |-> 0]
    /\ out' = <<>>
    /\ UNCHANGED <<now, lastUpdateTime, nextId, connected, players, bullets, threw>>

\* ------------------------------------------------------------------------
\* updateGameState (the setInterval callback)
\* ------------------------------------------------------------------------
\* bullet.position += bullet.direction * BULLET_SPEED * deltaTime, with
\* deltaTime = dt / 1000 seconds
MoveBullet(bullet, dt) ==
    IF bullet.position.k = "num" /\ bullet.direction.k = "num"
    THEN [bullet EXCEPT !.position =
            Num(bullet.position.x + (bullet.direction.x * BULLET_SPEED * dt) \div 1000,
                bullet.position.z + (bullet.direction.z * BULLET_SPEED * dt) \div 1000)]
    ELSE [bullet EXCEPT !.position = NaNVec]

\* now - bullet.createdAt > BULLET_LIFETIME
ExpiredSignError(bullet, t) == bullet.createdAt - t > BULLET_LIFETIME
Expired(bullet, t) == t - bullet.createdAt > BULLET_LIFETIME

\* The skip test of the collision loop
SkipOwnerOnly(playerId, player, bullet) == playerId = bullet.playerId
SkipTarget(playerId, player, bullet) == playerId = bullet.playerId \/ ~player.isAlive

\* player.health <= 0
LethalStrict(health) == health < 0
Lethal(health) == health <= 0

\* The shooter's point for a kill
AwardNothing(ps, shooter) == ps
AwardPoint(ps, shooter) ==
    IF shooter \in DOMAIN ps THEN [ps EXCEPT ![shooter].score = @ + 1] ELSE ps

\* The body of "if (distanceSquared < 25)": the players and the PLAYER_HIT
\* after bullet hit the player playerId at time t.
ApplyHit(ps, playerId, bullet, t) ==
    LET health == ps[playerId].health - bullet.damage
    IN IF Lethal(health)
       THEN [players |-> AwardPoint([ps EXCEPT ![playerId].health = 0,
                                               ![playerId].isAlive = FALSE,
                                               ![playerId].respawnTime = t + RESPAWN_TIME],
                                    bullet.playerId),
             msg |-> Msg("PLAYER_HIT", "all", 0,
                         [id |-> playerId, damage |-> bullet.damage, health |-> 0,
                          killed |-> TRUE, killerId |-> bullet.playerId])]
       ELSE [players |-> [ps EXCEPT ![playerId].health = health],
             msg |-> Msg("PLAYER_HIT", "all", 0,
                         [id |-> playerId, damage |-> bullet.damage, health |-> health,
                          killed |-> FALSE, killerId |-> 0])]

\* The collision loop of one bullet over the players from index i on.
\* res is "miss", "hit" or "throw" (player.position is undefined).
RECURSIVE Collide(_, _, _, _, _)
Collide(ps, order, i, bullet, t) ==
    IF i > Len(order) THEN [res |-> "miss", players |-> ps, msgs |-> <<>>]
    ELSE LET playerId == order[i]
             player == ps[playerId]
         IN IF SkipTarget(playerId, player, bullet)
            THEN Collide(ps, order, i + 1, bullet, t)
            ELSE IF player.position.k = "undef"
            THEN [res |-> "throw", players |-> ps, msgs |-> <<>>]
            ELSE IF DistSqLess(player.position, bullet.position, HitRadiusSq)
            THEN LET h == ApplyHit(ps, playerId, bullet, t)
                 IN [res |-> "hit", players |-> h.players, msgs |-> <<h.msg>>]
            ELSE Collide(ps, order, i + 1, bullet, t)

\* The loop over gameState.bullets from index i on.  st.bullets collects the
\* bullets that stay; after a throw the bullets not yet visited stay as well.
\* st.aged counts the bullets dropped by the lifetime check.
RECURSIVE BulletLoop(_, _, _, _, _)
BulletLoop(st, bs, i, t, dt) ==
    IF i > Len(bs) THEN st
    ELSE IF Expired(bs[i], t)
         THEN BulletLoop([st EXCEPT !.aged = @ + 1], bs, i + 1, t, dt)
    ELSE LET bullet == MoveBullet(bs[i], dt)
             c == Collide(st.players, PlayerOrder(st.players), 1, bullet, t)
         IN CASE c.res = "throw" ->
                    [st EXCEPT !.threw = TRUE,
                               !.bullets = @ \o <<bullet>> \o SubSeq(bs, i + 1, Len(bs))]
              [] c.res = "hit" ->
                    BulletLoop([st EXCEPT !.players = c.players, !.out = @ \o c.msgs],
                               bs, i + 1, t, dt)
              [] OTHER ->
                    BulletLoop([st EXCEPT !.bullets = Append(@, bullet)], bs, i + 1, t, dt)

\* !player.isAlive && now >= player.respawnTime
RespawnDueAtOnce(player, t) == ~player.isAlive
RespawnDue(player, t) == ~player.isAlive /\ t >= player.respawnTime

\* The respawn loop over the players from index i on; rnds gives each
\* respawning player the random numbers of its getRandomSpawnPosition call.
RECURSIVE RespawnLoop(_, _, _, _, _)
RespawnLoop(st, order, i, t, rnds) ==
    IF i > Len(order) THEN st
    ELSE LET playerId == order[i]
             player == st.players[playerId]
         IN IF ~RespawnDue(player, t) THEN RespawnLoop(st, order, i + 1, t, rnds)
            ELSE LET revived == [st.players EXCEPT ![playerId].isAlive = TRUE,
                                                   ![playerId].health = TANK_HEALTH]
                     spawn == getRandomSpawnPosition(revived, rnds[playerId])
                     moved == [revived EXCEPT ![playerId].position = spawn.position]
                 IN IF spawn.threw
                    THEN [st EXCEPT !.threw = TRUE, !.players = revived]
                    ELSE RespawnLoop(
                           [st EXCEPT !.players = moved,
                                      !.out = Append(@, Msg("PLAYER_RESPAWN", "all", 0,
                                                   [id |-> playerId,
                                                    position |-> spawn.position,
                                                    health |-> TANK_HEALTH]))],
                           order, i + 1, t, rnds)

\* The state after the bullet loop of a tick at time t
AfterBullets(t) ==
    BulletLoop([players |-> players, bullets |-> <<>>, out |-> <<>>, threw |-> FALSE,
                aged |-> 0],
               bullets, 1, t, t - lastUpdateTime)

DueIds(ps, t) == {id \in DOMAIN ps : RespawnDue(ps[id], t)}

\* What the tick leaves behind: st is the state at its end or at its throw.
\* The GAME_STATE broadcast is its last statement.
TickEffects(st) ==
    /\ threw' = st.threw
    /\ players' = st.players
    /\ bullets' = st.bullets
    /\ out' = IF st.threw THEN st.out
              ELSE Append(st.out,
                          Msg("GAME_STATE", "all", 0, Snapshot(st.players, st.bullets)))

Tick ==
    /\ ~threw
    /\ UNCHANGED clientVars
    /\ lastUpdateTime' = now
    /\ UNCHANGED <<now, nextId, connected>>
    /\ \E st1 \in {AfterBullets(now)} :
          /\ last' = [op |-> "tick", conn |-> 0, aged |-> st1.aged]
          /\ IF st1.threw
             THEN TickEffects(st1)
             ELSE \E rnds \in [DueIds(st1.players, now) -> RandomInputs] :
                     \E st2 \in {RespawnLoop(st1, PlayerOrder(st1.players), 1, now, rnds)} :
                        TickEffects(st2)

\* ------------------------------------------------------------------------
\* The wall clock
\* ------------------------------------------------------------------------
Advance(d, horizon) ==
    /\ ~threw
    /\ UNCHANGED clientVars
    /\ now + d <= StartTime + horizon
    /\ now + d - lastUpdateTime <= MaxLag
    /\ now' = now + d
    /\ out' = <<>>
    /\ last' = [op |-> "advance", conn |-> 0, aged |-> 0]
    /\ UNCHANGED <<lastUpdateTime, nextId, connected, players, bullets, threw>>

\* ------------------------------------------------------------------------
\* Specifications
\* ------------------------------------------------------------------------
\* Every handler with every payload, over a short stretch of time.
Next ==
    \/ \E rnd \in RandomInputs : Connect(rnd, MaxConns)
    \/ \E c \in ConnIds : Disconnect(c)
    \/ \E c \in ConnIds, data \in MovePayloads : PlayerMoved(c, data)
    \/ \E c \in ConnIds, data \in ShotPayloads : PlayerShot(c, data, MaxBullets)
    \/ \E c \in ConnIds, data \in ChatPayloads : ChatMessage(c, data)
    \/ Tick
    \/ \E d \in TimeSteps : Advance(d, Horizon)

Spec == Init /\ [][Next]_vars

\* A duel: long enough for a tank to be destroyed (TANK_HEALTH / BULLET_DAMAGE
\* hits, RELOAD_TIME apart) and to respawn RESPAWN_TIME later.  Clients send
\* shots, with or without data, and moves that carry no position.
DuelMoves == {m \in MovePayloads : m.present /\ m.position.k = "undef"}
DuelShots == {m \in ShotPayloads : m.present => m.position.k = "num"}

DuelNext ==
    \/ \E rnd \in RandomInputs : Connect(rnd, MaxConns)
    \/ \E c \in ConnIds : Disconnect(c)
    \/ \E c \in ConnIds, data \in DuelMoves : PlayerMoved(c, data)
    \/ \E c \in ConnIds, data \in DuelShots : PlayerShot(c, data, MaxBullets)
    \/ Tick
    \/ \E d \in TimeSteps : Advance(d, DuelHorizon)

DuelSpec == Init /\ [][DuelNext]_vars

\* A melee: one more player than in a duel, for the one clock step a bullet
\* needs to reach its target.
MeleeConns == 1..(MaxConns + 1)

MeleeNext ==
    \/ \E rnd \in RandomInputs : Connect(rnd, MaxConns + 1)
    \/ \E c \in MeleeConns, data \in DuelMoves : PlayerMoved(c, data)
    \/ \E c \in MeleeConns, data \in DuelShots : PlayerShot(c, data, MaxBullets)
    \/ Tick
    \/ \E d \in TimeSteps : Advance(d, MeleeHorizon)

MeleeSpec == Init /\ [][MeleeNext]_vars

\* A lobby: players come, move and go; nobody shoots and no time passes.
LobbyNext ==
    \/ \E rnd \in RandomInputs : Connect(rnd, MaxConns + 1)
    \/ \E c \in MeleeConns : Disconnect(c)
    \/ \E c \in MeleeConns, data \in MovePayloads : PlayerMoved(c, data)

LobbySpec == Init /\ [][LobbyNext]_vars

\* Four players within one clock step: room for a bystander next to a
\* shooter and two players in the bullet's way.
BrawlConns == 1..(MaxConns + 2)

BrawlNext ==
    \/ \E rnd \in RandomInputs : Connect(rnd, MaxConns + 2)
    \/ \E c \in BrawlConns, data \in DuelMoves : PlayerMoved(c, data)
    \/ \E c \in BrawlConns, data \in DuelShots : PlayerShot(c, data, MaxBullets)
    \/ Tick
    \/ \E d \in TimeSteps : Advance(d, MeleeHorizon)

BrawlSpec == Init /\ [][BrawlNext]_vars

\* Two players with a bullet each in flight within one clock step.
CrossfireNext ==
    \/ \E rnd \in RandomInputs : Connect(rnd, MaxConns)
    \/ \E c \in ConnIds, data \in DuelMoves : PlayerMoved(c, data)
    \/ \E c \in ConnIds, data \in DuelShots : PlayerShot(c, data, MaxBullets + 1)
    \/ Tick
    \/ \E d \in TimeSteps : Advance(d, MeleeHorizon)

CrossfireSpec == Init /\ [][CrossfireNext]_vars

\* A player that keeps firing for longer than a bullet lives.
ArsenalNext ==
    \/ \E rnd \in RandomInputs : Connect(rnd, ArsenalConns)
    \/ \E c \in 1..ArsenalConns, data \in DuelShots : PlayerShot(c, data, ArsenalBullets)
    \/ Tick
    \/ \E d \in TimeSteps : Advance(d, ArsenalHorizon)

ArsenalSpec == Init /\ [][ArsenalNext]_vars

\* Connections that send pings while the game runs.
EchoNext ==
    \/ \E rnd \in RandomInputs : Connect(rnd, MaxConns)
    \/ \E c \in ConnIds : Disconnect(c)
    \/ \E c \in ConnIds : Ping(c)
    \/ Tick
    \/ \E d \in TimeSteps : Advance(d, Horizon)

EchoSpec == Init /\ [][EchoNext]_vars

\* ========================================================================
\* The client's methods, listeners and timers
\* ========================================================================
\* connect(serverUrl), from the application or from a reconnect timer.  The
\* result is the manager and the sockets after the call.
connect(n, ws) ==
    IF n.connected THEN [nm |-> n, webSockets |-> ws]
    ELSE [nm |-> [n EXCEPT !.connectionAttempts = @ + 1,
                           !.socket = Len(ws) + 1],
          webSockets |-> Append(ws, "connecting")]

\* Math.min(this.reconnectDelay * 1.5, 30000)
NextDelayUncapped(delay) == (delay * 3) \div 2
NextDelay(delay) ==
    IF (delay * 3) \div 2 < MaxReconnectDelay * DelayScale
    THEN (delay * 3) \div 2
    ELSE MaxReconnectDelay * DelayScale

\* The two branches of handleDisconnect
ShouldRetry(n, code) ==
    code # NormalClosure /\ n.connectionAttempts < maxConnectionAttempts
GivesUp(n, code) ==
    ~ShouldRetry(n, code) /\ n.connectionAttempts >= maxConnectionAttempts

\* handleDisconnect(code, reason) at time t: the manager, the timers, the
\* callbacks triggered and the history after the call.
handleDisconnect(n, ts, tr, code, t) ==
    [nm |-> [n EXCEPT !.connected = FALSE,
                      !.pingInterval = Null,
                      !.reconnectDelay =
                          IF ShouldRetry(n, code) THEN NextDelay(@) ELSE @],
     timers |-> IF ShouldRetry(n, code)
                THEN Append(ts, [due |-> t + n.reconnectDelay \div DelayScale,
                                 delay |-> n.reconnectDelay])
                ELSE ts,
     heard |-> <<"disconnect">>
               \o (IF GivesUp(n, code)
                   THEN <<"error: Max reconnection attempts reached">>
                   ELSE <<>>),
     trail |-> [tr EXCEPT !.scheduled =
                              IF ShouldRetry(n, code)
                              THEN Append(@, n.reconnectDelay) ELSE @,
                          !.maxErrors =
                              IF GivesUp(n, code) THEN @ + 1 ELSE @]]

\* The application calls connect(serverUrl)
AppConnect(maxSockets) ==
    /\ Len(webSockets) < maxSockets
    /\ LET r == connect(nm, webSockets)
       IN /\ nm' = r.nm
          /\ webSockets' = r.webSockets
    /\ heard' = <<>>
    /\ trail' = [Step("connect", nm'.socket, 0) EXCEPT !.maxErrors = 0,
                                                        !.clean = FALSE]
    /\ UNCHANGED <<clientNow, timers, wire>>
    /\ UNCHANGED <<delayed, serverVars>>

\* The timers that may fire now: due, and none is due before them (timers of
\* equal due time fire in the order they were set).
Due(i) ==
    /\ timers[i].due <= clientNow
    /\ \A j \in 1..Len(timers) :
          \/ timers[j].due > timers[i].due
          \/ (timers[j].due = timers[i].due /\ j >= i)

RemoveAt(seq, i) == SubSeq(seq, 1, i - 1) \o SubSeq(seq, i + 1, Len(seq))

\* setTimeout callback of handleDisconnect: this.connect(this.serverUrl)
TimerFires(maxSockets) ==
    \E i \in 1..Len(timers) :
        /\ Due(i)
        /\ nm.connected \/ Len(webSockets) < maxSockets
        /\ LET r == connect(nm, webSockets)
           IN /\ nm' = r.nm
              /\ webSockets' = r.webSockets
        /\ timers' = RemoveAt(timers, i)
        /\ heard' = <<>>
        /\ trail' = Step("timer", nm'.socket, 0)
        /\ UNCHANGED <<clientNow, wire>>
        /\ UNCHANGED <<delayed, serverVars>>

\* 'open' listener of socket s
SocketOpenResetsDelay(s) ==
    /\ webSockets[s] = "connecting"
    /\ webSockets' = [webSockets EXCEPT ![s] = "open"]
    /\ nm' = [nm EXCEPT !.connected = TRUE, !.connectionAttempts = 0,
                        !.reconnectDelay = InitialReconnectDelay * DelayScale,
                        !.pingInterval = clientNow]
    /\ heard' = <<"connect">>
    /\ trail' = Step("open", s, 0)
    /\ UNCHANGED <<clientNow, timers, wire>>
    /\ UNCHANGED <<delayed, serverVars>>
SocketOpen(s) ==
    /\ webSockets[s] = "connecting"
    /\ webSockets' = [webSockets EXCEPT ![s] = "open"]
    /\ nm' = [nm EXCEPT !.connected = TRUE, !.connectionAttempts = 0,
                        !.pingInterval = clientNow]
    /\ heard' = <<"connect">>
    /\ trail' = Step("open", s, 0)
    /\ UNCHANGED <<clientNow, timers, wire>>
    /\ UNCHANGED <<delayed, serverVars>>

\* 'error' listener of socket s: the connection could not be made or was
\* lost; the close event is still to come.
SocketError(s) ==
    /\ webSockets[s] \in {"connecting", "open"}
    /\ webSockets' = [webSockets EXCEPT ![s] = "failing"]
    /\ LET r == handleDisconnect(nm, timers, Step("error", s, 0), 0, clientNow)
       IN /\ nm' = r.nm
          /\ timers' = r.timers
          /\ heard' = <<"error: Connection error">> \o r.heard
          /\ trail' = r.trail
    /\ UNCHANGED <<clientNow, wire>>
    /\ UNCHANGED <<delayed, serverVars>>

\* The codes the close event of a socket can carry: AbnormalClosure after an
\* error; NormalClosure, or AbnormalClosure when the connection is lost
\* first, after the server or the client closed it.
CodesOf(state) ==
    CASE state = "failing" -> {AbnormalClosure}
      [] state \in {"open", "closing"} -> CloseCodes
      [] OTHER -> {}

\* 'close' listener of socket s
SocketClose(s, code) ==
    /\ code \in CodesOf(webSockets[s])
    /\ webSockets' = [webSockets EXCEPT ![s] = "closed"]
    /\ LET r == handleDisconnect(nm, timers,
                                 Step(IF webSockets[s] = "closing"
                                      THEN "closed by client" ELSE "close",
                                      s, code),
                                 code, clientNow)
       IN /\ nm' = r.nm
          /\ timers' = r.timers
          /\ heard' = r.heard
          /\ trail' = [r.trail EXCEPT !.clean =
                          @ \/ (webSockets[s] = "closing" /\ code = NormalClosure)]
    /\ UNCHANGED <<clientNow, wire>>
    /\ UNCHANGED <<delayed, serverVars>>

\* socket.close(1000, ...) on a socket in the given state
AfterClose(state) ==
    CASE state = "open" -> "closing"
      [] state = "connecting" -> "failing"
      [] OTHER -> state

\* disconnect()
disconnect ==
    /\ IF ~nm.connected \/ nm.socket = 0
       THEN UNCHANGED <<nm, webSockets>>
       ELSE /\ webSockets' = [webSockets EXCEPT ![nm.socket] = AfterClose(@)]
            /\ nm' = [nm EXCEPT !.connected = FALSE, !.socket = 0,
                                !.pingInterval = Null]
    /\ heard' = <<>>
    /\ trail' = Step("disconnect", nm.socket, 0)
    /\ UNCHANGED <<clientNow, timers, wire>>
    /\ UNCHANGED <<delayed, serverVars>>

\* const input = this.inputBuffer || inputState: [] is truthy, null is not
BufferedOrSupplied(buffer, inputState) ==
    IF buffer # Null THEN buffer ELSE inputState

\* const actionId = ++this.clientSequence
SequenceNotAdvanced(clientSequence) == clientSequence
NextSequence(clientSequence) == clientSequence + 1

\* this.pendingActions.set(actionId, now)
SetPending(pending, actionId, t) ==
    [i \in DOMAIN pending \cup {actionId} |->
        IF i = actionId THEN t ELSE pending[i]]

\* sendMessage(type, data): what is on the wire after the call.  send() on
\* a socket that is not open puts nothing on the wire.
sendMessageThrottled(n, ws, w, message) ==
    IF ~n.connected \/ n.socket = 0 THEN w
    ELSE IF message.timestamp - n.lastInputTime < inputThrottleTime THEN w
    ELSE IF ws[n.socket] = "open" THEN Append(w, message)
    ELSE w

sendMessage(n, ws, w, message) ==
    IF ~n.connected \/ n.socket = 0 THEN w
    ELSE IF ws[n.socket] = "open" THEN Append(w, message)
    ELSE w

\* sendInput(inputState)
sendInput(inputState, maxCalls) ==
    /\ Len(trail.calls) < maxCalls
    /\ IF ~nm.connected
       THEN /\ UNCHANGED <<nm, wire>>
            /\ trail' = Step("input", nm.socket, 0)
       ELSE /\ trail' = [Step("input", nm.socket, 0) EXCEPT
                            !.calls = Append(@, [at |-> clientNow,
                                                 input |-> inputState,
                                                 socket |-> nm.socket])]
            /\ IF clientNow - nm.lastInputTime < inputThrottleTime
               THEN /\ nm' = [nm EXCEPT !.inputBuffer = inputState]
                    /\ wire' = wire
               ELSE LET input == BufferedOrSupplied(nm.inputBuffer, inputState)
                        actionId == NextSequence(nm.clientSequence)
                    IN /\ nm' = [nm EXCEPT
                                   !.lastInputTime = clientNow,
                                   !.inputBuffer = Null,
                                   !.clientSequence = actionId,
                                   !.pendingActions =
                                       SetPending(@, actionId, clientNow)]
                       /\ wire' = sendMessage(nm', webSockets, wire,
                                      [type |-> "PLAYER_MOVED",
                                       input |-> input,
                                       sequence |-> actionId,
                                       timestamp |-> clientNow,
                                       socket |-> nm.socket])
    /\ heard' = <<>>
    /\ UNCHANGED <<clientNow, webSockets, timers>>
    /\ UNCHANGED <<delayed, serverVars>>

\* now - timestamp > 5000
StaleReversed(timestamp, t) == timestamp - t > MaxPendingAge
Stale(timestamp, t) == t - timestamp > MaxPendingAge

\* reconcileGameState(serverState): predictionEnabled is true
reconcileGameState(pending, t) ==
    [i \in {a \in DOMAIN pending : ~Stale(pending[a], t)} |-> pending[i]]

\* 'message' listener of socket s, for a GAME_STATE message whose sequence
\* field is sequence (0 when it has none): handleMessage
ReceiveGameState(s, sequence) ==
    /\ webSockets[s] \in {"open", "closing"}
    /\ nm' = [nm EXCEPT !.serverSequence = sequence,
                        !.pendingActions = reconcileGameState(@, clientNow)]
    /\ heard' = <<"gameState">>
    /\ trail' = Step("gameState", s, 0)
    /\ UNCHANGED <<clientNow, webSockets, timers, wire>>
    /\ UNCHANGED <<delayed, serverVars>>

\* sendShot(shotData).  The message carries no sequence number (0).
sendShot(shotData, maxShots) ==
    /\ Cardinality({k \in 1..Len(wire) : wire[k].type = "PLAYER_SHOT"}) < maxShots
    /\ wire' = IF ~nm.connected THEN wire
               ELSE sendMessage(nm, webSockets, wire,
                                [type |-> "PLAYER_SHOT",
                                 input |-> shotData,
                                 sequence |-> 0,
                                 timestamp |-> clientNow,
                                 socket |-> nm.socket])
    /\ heard' = <<>>
    /\ trail' = Step("shot", nm.socket, 0)
    /\ UNCHANGED <<nm, clientNow, webSockets, timers>>
    /\ UNCHANGED <<delayed, serverVars>>

\* sendMessage(type, data) while debug.simulateLatency > 0, at time t: the
\* setTimeout callbacks pending after the call.
sendMessageDelayed(n, q, message, t, simulateLatency) ==
    IF ~n.connected \/ n.socket = 0 THEN q
    ELSE Append(q, [message |-> message, due |-> t + simulateLatency])

\* sendShot(shotData) while debug.simulateLatency > 0
sendShotDelayed(shotData, simulateLatency, maxDelayed) ==
    /\ Len(delayed) < maxDelayed
    /\ delayed' = IF ~nm.connected THEN delayed
                  ELSE sendMessageDelayed(nm, delayed,
                                          [type |-> "PLAYER_SHOT",
                                           input |-> shotData,
                                           sequence |-> 0,
                                           timestamp |-> clientNow,
                                           socket |-> nm.socket],
                                          clientNow, simulateLatency)
    /\ heard' = <<>>
    /\ trail' = Step("shot", nm.socket, 0)
    /\ UNCHANGED <<nm, clientNow, webSockets, timers, wire>>
    /\ UNCHANGED serverVars

\* this.socket.send(message) in the callback, on the socket that this.socket
\* is when the callback runs: "threw" when this.socket is null (TypeError) or
\* still connecting (InvalidStateError), "sent" when it is open, "dropped"
\* when it is closing or closed.
SendOutcome(n, ws) ==
    CASE n.socket = 0 -> "threw"
      [] n.socket # 0 /\ ws[n.socket] = "connecting" -> "threw"
      [] n.socket # 0 /\ ws[n.socket] = "open" -> "sent"
      [] OTHER -> "dropped"

\* setTimeout callback of sendMessage, set while debug.simulateLatency > 0.
\* The step records the socket the message was queued on.
DelayedSendFires ==
    \E i \in 1..Len(delayed) :
        /\ delayed[i].due <= clientNow
        /\ \A j \in 1..(i - 1) : delayed[j].due > delayed[i].due
        /\ delayed' = RemoveAt(delayed, i)
        /\ wire' = IF SendOutcome(nm, webSockets) = "sent"
                   THEN Append(wire, [delayed[i].message EXCEPT
                                         !.socket = nm.socket])
                   ELSE wire
        /\ heard' = <<>>
        /\ trail' = Step("delayed send " \o SendOutcome(nm, webSockets),
                         delayed[i].message.socket, 0)
        /\ UNCHANGED <<nm, clientNow, webSockets, timers>>
        /\ UNCHANGED serverVars

\* The callback of setInterval in startPingMeasurement; it runs when the
\* interval is due or later, and the interval is due again pingFrequency
\* after that.
PingFires ==
    /\ nm.pingInterval # Null
    /\ clientNow >= nm.pingInterval + pingFrequency
    /\ nm' = [nm EXCEPT !.lastPingTime = clientNow,
                        !.pingInterval = @ + pingFrequency]
    /\ wire' = sendMessage(nm', webSockets, wire,
                           [type |-> "ping",
                            input |-> 0,
                            sequence |-> 0,
                            timestamp |-> clientNow,
                            socket |-> nm.socket])
    /\ heard' = <<>>
    /\ trail' = Step("ping", nm.socket, 0)
    /\ UNCHANGED <<clientNow, webSockets, timers>>
    /\ UNCHANGED <<delayed, serverVars>>

\* A frame a socket delivers.  text: "malformed" (JSON.parse throws), "null"
\* (the JSON text null) or "object"; the other fields are what the text
\* spells: type, data.id, data.isLocal (id at top level for 'player_id') and
\* the top-level timestamp, 0 when it has none.
Frame(text, type, id, isLocal, timestamp) ==
    [text |-> text, type |-> type, id |-> id, isLocal |-> isLocal,
     timestamp |-> timestamp]

\* JSON.parse(data) returns
ParsesAnything(frame) == TRUE
Parses(frame) == frame.text # "malformed"

\* handlePlayerJoined(playerData)
handlePlayerJoined(n, playerData) ==
    [n EXCEPT !.players = PutPlayer(@, playerData.id, playerData.isLocal),
              !.playerId = IF playerData.isLocal THEN playerData.id ELSE @]

\* handlePlayerLeft(playerData)
handlePlayerLeft(n, playerData) ==
    [n EXCEPT !.players = RemovePlayer(@, playerData.id)]

\* handlePong(message) at time t
handlePong(n, message, t) ==
    [n EXCEPT !.latency = t - (IF message.timestamp # 0 THEN message.timestamp
                                                         ELSE n.lastPingTime)]

\* Message types that are only handed to callbacks, and the callbacks' event
RelayedTypes ==
    {"PLAYER_MOVED", "PLAYER_SHOT", "PLAYER_HIT", "PLAYER_RESPAWN", "CHAT_MESSAGE"}

CallbackOf(type) ==
    CASE type = "PLAYER_MOVED" -> "playerMoved"
      [] type = "PLAYER_SHOT" -> "playerShot"
      [] type = "PLAYER_HIT" -> "playerHit"
      [] type = "PLAYER_RESPAWN" -> "playerRespawn"
      [] type = "CHAT_MESSAGE" -> "chatMessage"

\* How the step is recorded: by what was received
FrameOp(frame) ==
    CASE frame.text = "malformed" -> "malformed frame"
      [] frame.text = "null" -> "null frame"
      [] OTHER -> frame.type

\* handleMessage(data), 'message' listener of socket s, for every frame but a
\* GAME_STATE (ReceiveGameState).  The text null parses, and message.type
\* then throws out of the listener.
handleMessage(s, frame) ==
    /\ webSockets[s] \in {"open", "closing"}
    /\ frame.type # "GAME_STATE"
    /\ IF ~Parses(frame) \/ frame.text = "null"
       THEN /\ nm' = nm
            /\ heard' = <<>>
       ELSE CASE frame.type = "PLAYER_JOINED" ->
                   /\ nm' = handlePlayerJoined(nm, frame)
                   /\ heard' = <<"playerJoined">>
              [] frame.type = "PLAYER_LEFT" ->
                   /\ nm' = handlePlayerLeft(nm, frame)
                   /\ heard' = <<"playerLeft">>
              [] frame.type \in RelayedTypes ->
                   /\ nm' = nm
                   /\ heard' = <<CallbackOf(frame.type)>>
              [] frame.type = "pong" ->
                   /\ nm' = handlePong(nm, frame, clientNow)
                   /\ heard' = <<>>
              [] frame.type = "player_id" ->
                   /\ nm' = [nm EXCEPT !.playerId = frame.id]
                   /\ heard' = <<>>
              [] OTHER ->
                   /\ nm' = nm
                   /\ heard' = <<>>
    /\ trail' = Step(FrameOp(frame), s, frame.timestamp)
    /\ UNCHANGED <<clientNow, webSockets, timers, wire>>
    /\ UNCHANGED <<delayed, serverVars>>

\* The browser's clock.  A timer that is due fires before the clock moves on.
ClientAdvance(d, horizon) ==
    /\ \A i \in 1..Len(timers) : timers[i].due > clientNow
    /\ clientNow + d <= ClientStart + horizon
    /\ clientNow' = clientNow + d
    /\ heard' = <<>>
    /\ trail' = Step("advance", 0, 0)
    /\ UNCHANGED <<nm, webSockets, timers, wire>>
    /\ UNCHANGED <<delayed, serverVars>>

\* The clock runs up to the next reconnect timer
AdvanceToTimer ==
    /\ timers # <<>>
    /\ \A i \in 1..Len(timers) : timers[i].due > clientNow
    /\ \E i \in 1..Len(timers) :
          /\ \A j \in 1..Len(timers) : timers[j].due >= timers[i].due
          /\ clientNow' = timers[i].due
    /\ heard' = <<>>
    /\ trail' = Step("advance", 0, 0)
    /\ UNCHANGED <<nm, webSockets, timers, wire>>
    /\ UNCHANGED <<delayed, serverVars>>

\* ------------------------------------------------------------------------
\* Client specifications
\* ------------------------------------------------------------------------
SocketIds == 1..Len(webSockets)
ServerSequences == 0..1

\* A session of inputs: the application connects, sends inputs at the pace
\* of a fast frame loop, disconnects and connects again; the server sends
\* snapshots and may close the connection.
InputNext ==
    \/ AppConnect(SessionSockets)
    \/ \E s \in SocketIds : SocketOpen(s)
    \/ \E s \in SocketIds, code \in CloseCodes : SocketClose(s, code)
    \/ disconnect
    \/ \E inputState \in Inputs : sendInput(inputState, MaxCalls)
    \/ \E s \in SocketIds, sequence \in ServerSequences : ReceiveGameState(s, sequence)
    \/ \E d \in InputSteps : ClientAdvance(d, InputHorizon)

InputSpec == Init /\ [][InputNext]_vars

\* A session of reconciliations: the same with one value of the input, over
\* the seconds it takes a pending action to grow stale.
ReconcileNext ==
    \/ AppConnect(SessionSockets)
    \/ \E s \in SocketIds : SocketOpen(s)
    \/ \E s \in SocketIds : SocketClose(s, NormalClosure)
    \/ disconnect
    \/ sendInput(MaxInput, ReconcileCalls)
    \/ \E s \in SocketIds, sequence \in ServerSequences : ReceiveGameState(s, sequence)
    \/ \E d \in ReconcileSteps : ClientAdvance(d, ReconcileHorizon)

ReconcileSpec == Init /\ [][ReconcileNext]_vars

\* A session of reconnections: connections fail, are lost or are closed by
\* either side, and the reconnect timers run.
ReconnectNext ==
    \/ AppConnect(MaxSockets)
    \/ TimerFires(MaxSockets)
    \/ \E s \in SocketIds : SocketOpen(s)
    \/ \E s \in SocketIds : SocketError(s)
    \/ \E s \in SocketIds, code \in CloseCodes : SocketClose(s, code)
    \/ disconnect
    \/ AdvanceToTimer

ReconnectSpec == Init /\ [][ReconnectNext]_vars

\* An outage: the application calls connect() once while the server cannot
\* be reached, so that connection and every one a reconnect timer starts
\* fails.
OutageNext ==
    \/ AppConnect(1)
    \/ TimerFires(OutageSockets)
    \/ \E s \in SocketIds : SocketError(s)
    \/ \E s \in SocketIds : SocketClose(s, AbnormalClosure)
    \/ AdvanceToTimer

OutageSpec == Init /\ [][OutageNext]_vars

\* The same outage with room for one socket more than maxConnectionAttempts.
LongOutageNext ==
    \/ AppConnect(1)
    \/ TimerFires(OutageSockets + 1)
    \/ \E s \in SocketIds : SocketError(s)
    \/ \E s \in SocketIds : SocketClose(s, AbnormalClosure)
    \/ AdvanceToTimer

LongOutageSpec == Init /\ [][LongOutageNext]_vars

\* A session of shots: inputs and shots within the throttle window.
FireNext ==
    \/ AppConnect(FrameSockets)
    \/ \E s \in SocketIds : SocketOpen(s)
    \/ \E s \in SocketIds : SocketClose(s, NormalClosure)
    \/ disconnect
    \/ sendInput(MaxInput, FireCalls)
    \/ sendShot(MaxInput, MaxShots)
    \/ \E d \in InputSteps : ClientAdvance(d, InputHorizon)

FireSpec == Init /\ [][FireNext]_vars

\* Frames that arrive: undecodable ones, the text null, types the client
\* does not know and types it knows; a pong echoes the time of construction
\* or carries no timestamp.
IncomingFrames ==
    {Frame("malformed", "PLAYER_JOINED", 1, TRUE, 0),
     Frame("malformed", "pong", 0, FALSE, ClientStart),
     Frame("null", "", 0, FALSE, 0),
     Frame("object", "ERROR", 1, TRUE, ClientStart),
     Frame("object", "", 1, TRUE, ClientStart),
     Frame("object", "PLAYER_JOINED", 1, TRUE, 0),
     Frame("object", "PLAYER_JOINED", 2, FALSE, 0),
     Frame("object", "PLAYER_LEFT", 2, FALSE, 0),
     Frame("object", "PLAYER_HIT", 1, FALSE, 0),
     Frame("object", "player_id", 2, FALSE, 0),
     Frame("object", "pong", 0, FALSE, ClientStart),
     Frame("object", "pong", 0, FALSE, 0)}

FrameSteps == {2500}

\* A session of frames: the pings go out and frames come in.
FrameNext ==
    \/ AppConnect(FrameSockets)
    \/ \E s \in SocketIds : SocketOpen(s)
    \/ \E s \in SocketIds : SocketClose(s, NormalClosure)
    \/ disconnect
    \/ PingFires
    \/ \E s \in SocketIds, frame \in IncomingFrames : handleMessage(s, frame)
    \/ \E d \in FrameSteps : ClientAdvance(d, FrameHorizon)

FrameSpec == Init /\ [][FrameNext]_vars

\* A session with artificial send delay: debug.simulateLatency is
\* SimulatedLatency while the application connects, shoots, disconnects and
\* connects again.
SimulatedLatency == 100
LatencySteps == {SimulatedLatency}

LatencyNext ==
    \/ AppConnect(LatencySockets)
    \/ \E s \in SocketIds : SocketOpen(s)
    \/ \E s \in SocketIds : SocketClose(s, NormalClosure)
    \/ disconnect
    \/ sendShotDelayed(MaxInput, SimulatedLatency, MaxDelayed)
    \/ DelayedSendFires
    \/ \E d \in LatencySteps : ClientAdvance(d, LatencyHorizon)

LatencySpec == Init /\ [][LatencyNext]_vars

\* ========================================================================
\* Properties
\* ========================================================================
Ids == DOMAIN players
HandlerRan(ops) == last'.op \in ops
TickRan == last'.op = "tick"
Emitted(msgs, type) == {i \in 1..Len(msgs) : msgs[i].type = type}
BulletIds(bs) == {bs[i].id : i \in 1..Len(bs)}
InBounds(p) ==
    p.k = "num" /\ Abs(p.x) * 2 <= MAP_SIZE /\ Abs(p.z) * 2 <= MAP_SIZE

\* C1: in every reachable server state every player's health lies in
\* [0, TANK_HEALTH] and the player is dead exactly when its health is 0.
C1_HealthAndAlive ==
    \A id \in Ids :
        /\ players[id].health \in 0..TANK_HEALTH
        /\ ~players[id].isAlive <=> players[id].health = 0

\* A tank has been destroyed and another one is damaged but alive.
C1_Witness ==
    \E id, other \in Ids :
        /\ ~players[id].isAlive
        /\ players[other].isAlive
        /\ players[other].health < TANK_HEALTH

\* C2: a PLAYER_MOVED or PLAYER_SHOT from a socket whose player is not in
\* gameState.players raises no error, changes neither players nor bullets and
\* emits nothing.
C2_UnknownPlayerIsNoOp ==
    [][(HandlerRan({"move", "shot"}) /\ last'.conn \notin Ids)
         => /\ ~threw'
            /\ players' = players
            /\ bullets' = bullets
            /\ out' = <<>>]_vars

\* A message of a socket that has disconnected was handled while another
\* player was still in the game.
C2_Witness ==
    /\ last.op \in {"move", "shot"}
    /\ last.conn \notin Ids
    /\ last.conn \notin connected
    /\ Ids # {}

\* C3: a PLAYER_SHOT of a player whose last accepted shot is less than
\* RELOAD_TIME ago, or of a dead player, creates no bullet, leaves the
\* players (lastShotTime included) unchanged, emits nothing (no PLAYER_SHOT,
\* no error message) and raises no error.
C3_ShotRejected ==
    [][(/\ HandlerRan({"shot"})
        /\ last'.conn \in Ids
        /\ \/ now - players[last'.conn].lastShotTime < RELOAD_TIME
           \/ ~players[last'.conn].isAlive)
         => /\ bullets' = bullets
            /\ players' = players
            /\ out' = <<>>
            /\ ~threw']_vars

\* A living player's shot was rejected inside the reload window.
C3_Witness ==
    /\ last.op = "shot"
    /\ last.conn \in Ids
    /\ players[last.conn].isAlive
    /\ now - players[last.conn].lastShotTime < RELOAD_TIME
    /\ out = <<>>
    /\ ~threw

\* The living players other than the owner that the bullet, moved by the
\* tick, is within the hit radius of.
C4_Targets(bullet) ==
    LET moved == MoveBullet(bullet, now - lastUpdateTime)
    IN {id \in Ids : /\ id # bullet.playerId
                     /\ players[id].isAlive
                     /\ DistSqLess(players[id].position, moved.position, HitRadiusSq)}

C4_Live(i) == now - bullets[i].createdAt <= BULLET_LIFETIME

\* C4: in a tick, a live bullet that is the only one in contact with anybody
\* and is within the hit radius of exactly one living non-owner player is
\* removed, that player's health drops by exactly the bullet's damage, and the
\* shooter's score grows by 1 if the hit is lethal and by 0 otherwise.
C4_SingleHit ==
    [][TickRan =>
         \A i \in 1..Len(bullets), target \in Ids :
            (/\ C4_Live(i)
             /\ C4_Targets(bullets[i]) = {target}
             /\ \A j \in 1..Len(bullets) :
                   (j # i /\ C4_Live(j)) => C4_Targets(bullets[j]) = {})
            => /\ bullets[i].id \notin BulletIds(bullets')
               /\ players'[target].health = players[target].health - bullets[i].damage
               /\ bullets[i].playerId \in Ids =>
                    players'[bullets[i].playerId].score =
                        players[bullets[i].playerId].score
                        + (IF players'[target].health = 0 THEN 1 ELSE 0)]_vars

\* C5: a tick removes every bullet older than BULLET_LIFETIME, and a tick
\* that finds only such bullets emits no PLAYER_HIT and changes no player's
\* score or respawnTime and no living player's health, isAlive or position.
C5_ExpiredBulletRemoved ==
    [][TickRan =>
         /\ \A i \in 1..Len(bullets) :
               now - bullets[i].createdAt > BULLET_LIFETIME
                 => bullets[i].id \notin BulletIds(bullets')
         /\ (\A i \in 1..Len(bullets) : now - bullets[i].createdAt > BULLET_LIFETIME)
               => /\ bullets' = <<>>
                  /\ Emitted(out', "PLAYER_HIT") = {}
                  /\ \A id \in Ids :
                        /\ players'[id].score = players[id].score
                        /\ players'[id].respawnTime = players[id].respawnTime
                        /\ players[id].isAlive => players'[id] = players[id]]_vars

\* A tick has just dropped a bullet for its age while a living player other
\* than the bullet's owner was in the game.
C5_Witness ==
    /\ last.op = "tick"
    /\ last.aged > 0
    /\ ~threw
    /\ \E id \in Ids : players[id].isAlive /\ players[id].lastShotTime = 0

\* C6: a tick that runs at or after a dead player's respawnTime leaves that
\* player alive with TANK_HEALTH at a spawn position inside the map and
\* broadcasts a PLAYER_RESPAWN with that position.
C6_Respawn ==
    [][TickRan =>
         \A id \in Ids :
            (~players[id].isAlive /\ now >= players[id].respawnTime)
            => /\ players'[id].isAlive
               /\ players'[id].health = TANK_HEALTH
               /\ InBounds(players'[id].position)
               /\ \E i \in Emitted(out', "PLAYER_RESPAWN") :
                     /\ out'[i].to = "all"
                     /\ out'[i].body.id = id
                     /\ out'[i].body.position = players'[id].position
                     /\ out'[i].body.health = TANK_HEALTH]_vars

\* C7: a PLAYER_MOVED, PLAYER_SHOT or CHAT_MESSAGE received on socket c
\* changes no player other than c, adds only bullets owned by c, and every
\* message it emits names c.
C7_AttributedToSocket ==
    [][HandlerRan({"move", "shot", "chat"}) =>
         LET c == last'.conn
         IN /\ DOMAIN players' = Ids
            /\ \A q \in Ids \ {c} : players'[q] = players[q]
            /\ \A i \in 1..Len(bullets') :
                  \/ \E j \in 1..Len(bullets) : bullets[j] = bullets'[i]
                  \/ bullets'[i].playerId = c
            /\ \A i \in 1..Len(out') :
                  out'[i].from = c /\ out'[i].body.id = c]_vars

\* A message whose payload names player 1 was handled for another socket
\* while player 1 was in the game, and it was relayed.
C7_Witness ==
    /\ last.op \in {"move", "shot", "chat"}
    /\ last.conn # 1
    /\ 1 \in Ids
    /\ out # <<>>

\* C8: no inbound message, whatever its payload, makes its handler or a
\* later tick raise an error.
C8_NothingThrows == ~threw

\* C9: every player's position is within the map bounds in every reachable
\* state.
C9_PositionInBounds == \A id \in Ids : InBounds(players[id].position)

\* C10: the players are exactly the connected sockets; a disconnect removes
\* the socket's player, leaves the others as they were, broadcasts one
\* PLAYER_LEFT with its id, and removing the player once more changes nothing.
C10_PlayersAreConnections ==
    [][/\ DOMAIN players' = connected'
       /\ HandlerRan({"disconnect"}) =>
            LET c == last'.conn
            IN /\ c \notin DOMAIN players'
               /\ \A q \in Ids \ {c} : q \in DOMAIN players' /\ players'[q] = players[q]
               /\ out' = <<Msg("PLAYER_LEFT", "all", c, [id |-> c])>>
               /\ RemovePlayer(players', c) = players'
               /\ ~threw']_vars

\* C11: the connection callback allocates a new player that is alive with
\* TANK_HEALTH and score 0, sends the new socket a GAME_STATE whose snapshot
\* is the current players with that player among them, lets the new socket
\* learn its own id, and announces the player with a PLAYER_JOINED that
\* reaches every other socket.
C11_ConnectAnnounces ==
    [][HandlerRan({"connect"}) =>
         LET id == last'.conn
         IN /\ id \notin Ids
            /\ id \in DOMAIN players'
            /\ players'[id].isAlive
            /\ players'[id].health = TANK_HEALTH
            /\ players'[id].score = 0
            /\ \E i \in Emitted(out', "GAME_STATE") :
                  /\ out'[i].to = "self"
                  /\ out'[i].body.players = players'
            /\ \E i \in 1..Len(out') :
                  /\ out'[i].to \in {"self", "all"}
                  /\ out'[i].type = "PLAYER_JOINED"
                  /\ out'[i].body.id = id
            /\ \E i \in Emitted(out', "PLAYER_JOINED") :
                  /\ out'[i].to \in {"all", "others"}
                  /\ out'[i].body = players'[id]]_vars

\* C12: every tick ends by broadcasting exactly one GAME_STATE: it is the
\* last message of the tick, it goes to all sockets alike, and its snapshot
\* is the players and bullets as the tick's bullet movement, hits and
\* respawns left them.
C12_TickBroadcastsSnapshot ==
    [][TickRan =>
         /\ Cardinality(Emitted(out', "GAME_STATE")) = 1
         /\ Len(out') > 0
         /\ out'[Len(out')].type = "GAME_STATE"
         /\ out'[Len(out')].to = "all"
         /\ out'[Len(out')].body = Snapshot(players', bullets')]_vars

\* The central exclusion zone, and the draws of one call that are valid: out
\* of the zone and at least 20 units from every player.
C13_InZone(p) == Abs(p.x) < 20 /\ Abs(p.z) < 20
C13_ValidDraws(rnd) ==
    {i \in 1..MaxAttempts :
        /\ ~C13_InZone(rnd.draws[i])
        /\ \A id \in Ids : ~DistSqLess(players[id].position, rnd.draws[i], 400)}

ClientRan(ops) == trail'.op \in ops

\* The calls of the burst that call i opens: the calls on the same socket
\* less than inputThrottleTime after it.
BurstOf(i) ==
    {j \in i..Len(trail.calls) :
        /\ trail.calls[j].socket = trail.calls[i].socket
        /\ trail.calls[j].at - trail.calls[i].at < inputThrottleTime}

\* Call i opens a burst: no call was made in the interval before it.
OpensBurst(i) ==
    i = 1 \/ trail.calls[i].at - trail.calls[i - 1].at >= inputThrottleTime

\* The messages sent on the socket of call i during its burst
SentInBurst(i) ==
    {k \in 1..Len(wire) :
        /\ wire[k].socket = trail.calls[i].socket
        /\ wire[k].timestamp >= trail.calls[i].at
        /\ wire[k].timestamp - trail.calls[i].at < inputThrottleTime}

\* C14: when sendInput has been called several times within one throttle
\* interval on a connection that is still open, exactly one PLAYER_MOVED was
\* sent in that interval and it carries the input of the last of those calls.
C14_BurstSendsLatest ==
    \A i \in 1..Len(trail.calls) :
        (/\ OpensBurst(i)
         /\ Cardinality(BurstOf(i)) >= 2
         /\ webSockets[trail.calls[i].socket] = "open"
         /\ clientNow - trail.calls[i].at >= inputThrottleTime)
        => /\ Cardinality(SentInBurst(i)) = 1
           /\ \A k \in SentInBurst(i), j \in BurstOf(i) :
                 (\A l \in BurstOf(i) : l <= j)
                    => wire[k].input = trail.calls[j].input

\* C15: every PLAYER_MOVED that sendInput puts on the wire is at least
\* inputThrottleTime later than every earlier one and carries the input
\* supplied last, which is the argument of the call that sends it.
C15_SendsAreSpacedAndLatest ==
    [][Len(wire') > Len(wire) =>
         LET message == wire'[Len(wire')]
         IN /\ \A k \in 1..Len(wire) :
                  message.timestamp - wire[k].timestamp >= inputThrottleTime
            /\ message.input = trail'.calls[Len(trail'.calls)].input]_vars

\* C16: every PLAYER_MOVED that sendInput puts on the wire carries a
\* sequence number greater than that of every message sent before it, on
\* this connection or an earlier one, and when it is sent pendingActions maps
\* that number to the time of the send.
C16_SequenceGrows ==
    [][Len(wire') > Len(wire) =>
         LET message == wire'[Len(wire')]
         IN /\ \A k \in 1..Len(wire) : message.sequence > wire[k].sequence
            /\ message.sequence \in DOMAIN nm'.pendingActions
            /\ nm'.pendingActions[message.sequence] = message.timestamp
            /\ message.timestamp = clientNow]_vars

\* Inputs have been sent on two connections, and the pending action of the
\* first has already been dropped.
C16_Witness ==
    /\ Len(wire) >= 2
    /\ wire[1].socket # wire[Len(wire)].socket
    /\ wire[1].sequence \notin DOMAIN nm.pendingActions
    /\ wire[Len(wire)].sequence \in DOMAIN nm.pendingActions

\* C17: when a GAME_STATE message has been handled, pendingActions holds no
\* action sent more than MaxPendingAge ago and holds every other action it
\* held before, with its timestamp; apart from serverSequence, which
\* handleMessage sets before it reconciles, nothing else of the client
\* changes.
C17_ReconcileDropsStale ==
    [][ClientRan({"gameState"}) =>
         /\ \A a \in DOMAIN nm'.pendingActions :
               /\ clientNow - nm'.pendingActions[a] <= MaxPendingAge
               /\ a \in DOMAIN nm.pendingActions
         /\ \A a \in DOMAIN nm.pendingActions :
               clientNow - nm.pendingActions[a] <= MaxPendingAge
                 => /\ a \in DOMAIN nm'.pendingActions
                    /\ nm'.pendingActions[a] = nm.pendingActions[a]
         /\ [nm' EXCEPT !.pendingActions = nm.pendingActions,
                        !.serverSequence = nm.serverSequence] = nm
         /\ UNCHANGED <<clientNow, webSockets, timers, wire>>]_vars

\* A snapshot has just been handled that left a recent action pending after
\* an action sent more than MaxPendingAge before had been dropped.
C17_Witness ==
    /\ trail.op = "gameState"
    /\ \E k \in 1..Len(wire) :
          /\ clientNow - wire[k].timestamp > MaxPendingAge
          /\ wire[k].sequence \notin DOMAIN nm.pendingActions
    /\ \E a \in DOMAIN nm.pendingActions :
          clientNow - nm.pendingActions[a] = MaxPendingAge

\* C18: the close event with code 1000 of a socket that disconnect() closed
\* sets no reconnect timer, and from then on no socket is created until the
\* application calls connect() again.
C18_CleanCloseStaysClosed ==
    [][/\ (ClientRan({"closed by client"}) /\ trail'.code = NormalClosure)
            => timers' = timers
       /\ (trail.clean /\ Len(webSockets') > Len(webSockets))
            => ClientRan({"connect"})]_vars

\* C19: during an outage the 'Max reconnection attempts reached' error is
\* surfaced at most once, and once it has been surfaced no reconnect timer is
\* set and no socket is created unless the application calls connect().
C19_GivesUpOnce ==
    [][/\ trail'.maxErrors <= 1
       /\ trail.maxErrors > 0 =>
            /\ Len(timers') <= Len(timers)
            /\ Len(webSockets') > Len(webSockets) => ClientRan({"connect"})]_vars

\* C20: the first reconnect delay is InitialReconnectDelay, every later one
\* is the smaller of 1.5 times the delay scheduled before it and
\* MaxReconnectDelay, so that the delays never decrease and never exceed
\* MaxReconnectDelay; each pending timer was set with the delay recorded.
C20_BackoffGrows ==
    /\ \A i \in 1..Len(trail.scheduled) :
          /\ i = 1 => trail.scheduled[i] = InitialReconnectDelay * DelayScale
          /\ i > 1 =>
               /\ \/ 2 * trail.scheduled[i] = 3 * trail.scheduled[i - 1]
                  \/ /\ trail.scheduled[i] = MaxReconnectDelay * DelayScale
                     /\ 3 * trail.scheduled[i - 1] >= 2 * trail.scheduled[i]
               /\ trail.scheduled[i] >= trail.scheduled[i - 1]
          /\ trail.scheduled[i] <= MaxReconnectDelay * DelayScale
    /\ \A i \in 1..Len(timers) :
          /\ \E j \in 1..Len(trail.scheduled) : timers[i].delay = trail.scheduled[j]
          /\ timers[i].due - clientNow <= MaxReconnectDelay

\* The delay has grown from InitialReconnectDelay to MaxReconnectDelay and
\* stayed there for the next timer.
C20_Witness ==
    /\ Len(trail.scheduled) >= 3
    /\ trail.scheduled[Len(trail.scheduled)] = MaxReconnectDelay * DelayScale
    /\ trail.scheduled[Len(trail.scheduled) - 1] = MaxReconnectDelay * DelayScale
    /\ trail.scheduled[Len(trail.scheduled) - 2] < MaxReconnectDelay * DelayScale

\* The entries of heard that went to the 'error' callbacks.
ErrorsHeard(h) ==
    {i \in 1..Len(h) : h[i] \in {"error: Connection error",
                                 "error: Max reconnection attempts reached"}}

\* C21: a socket error or an unclean close that arrives while
\* connectionAttempts is below maxConnectionAttempts reaches the 'disconnect'
\* callbacks and never the 'error' callbacks.
C21_FailureIsStatusOnly ==
    [][(/\ \/ ClientRan({"error"})
           \/ ClientRan({"close"}) /\ trail'.code # NormalClosure
        /\ nm.connectionAttempts < maxConnectionAttempts)
         => /\ \E i \in 1..Len(heard') : heard'[i] = "disconnect"
            /\ ErrorsHeard(heard') = {}]_vars

\* What the client does not understand: text that is not JSON, the text
\* null, and objects of a type handleMessage has no case for.
UnknownFrameOps == {"malformed frame", "null frame", "ERROR", ""}

\* C22: a frame that cannot be decoded, and a decodable frame of unknown
\* type, triggers no callback and changes no field of the NetworkManager
\* (players, playerId, pendingActions, latency, the sequences, connected);
\* the socket it arrived on stays as it was.
C22_BadFrameIsDropped ==
    [][ClientRan(UnknownFrameOps)
         => /\ heard' = <<>>
            /\ nm' = nm
            /\ webSockets' = webSockets
            /\ timers' = timers
            /\ wire' = wire]_vars

\* An undecodable frame has arrived on the connected socket after players
\* had joined and a latency had been measured.
C22_Witness ==
    /\ trail.op = "malformed frame"
    /\ nm.connected
    /\ webSockets[trail.sock] = "open"
    /\ DOMAIN nm.players # {}
    /\ nm.playerId # Null
    /\ nm.latency > 0

C24_PingIsAnswered ==
    [][/\ HandlerRan({"ping"})
            => \E i \in 1..Len(out') : /\ out'[i].type = "pong"
                                       /\ out'[i].to = "self"
                                       /\ out'[i].from = last'.conn
       /\ (ClientRan({"pong"}) /\ trail'.code # 0)
            => nm'.latency = clientNow - trail'.code
       /\ ~ClientRan({"pong"}) => nm'.latency = nm.latency]_vars

\* The part of C24 that is the client's: what a pong does to latency.
PongSetsLatency ==
    [][/\ (ClientRan({"pong"}) /\ trail'.code # 0)
            => nm'.latency = clientNow - trail'.code
       /\ ~ClientRan({"pong"}) => nm'.latency = nm.latency]_vars

\* A ping has left the client on an open socket.
PingOnTheWire ==
    \E k \in 1..Len(wire) : wire[k].type = "ping" /\ wire[k].timestamp = nm.lastPingTime

\* C25: a PLAYER_MOVED from a dead player changes no player and is not
\* relayed; one from a living player overwrites exactly that player's
\* position, rotation and turretRotation with the payload's values and is
\* relayed once, to every connection but the sender's.
C25_MoveOverwritesAndRelays ==
    [][(HandlerRan({"move"}) /\ last'.conn \in Ids)
         => IF ~players[last'.conn].isAlive
            THEN players' = players /\ out' = <<>>
            ELSE \E data \in MovePayloads :
                    /\ data.present
                    /\ players' = [players EXCEPT
                                     ![last'.conn].position = data.position,
                                     ![last'.conn].rotation = data.rotation,
                                     ![last'.conn].turretRotation = data.turretRotation]
                    /\ out' = <<Msg("PLAYER_MOVED", "others", last'.conn,
                                    [id |-> last'.conn,
                                     position |-> data.position,
                                     rotation |-> data.rotation,
                                     turretRotation |-> data.turretRotation])>>]_vars

\* C26: a player that stays in the game goes from alive to dead only in a
\* tick in which a bullet takes its health to 0 (the tick reports the kill),
\* and from dead to alive only in a tick that runs at or after its
\* respawnTime, which is also the only step that reports a respawn; the
\* PLAYER_MOVED, PLAYER_SHOT and CHAT_MESSAGE handlers change no player's
\* health, isAlive, score or respawnTime.
C26_LifeCycle ==
    [][\A id \in Ids \cap DOMAIN players' :
          /\ (players[id].isAlive /\ ~players'[id].isAlive)
               => /\ TickRan
                  /\ players'[id].health = 0
                  /\ \E i \in Emitted(out', "PLAYER_HIT") :
                        out'[i].body.id = id /\ out'[i].body.killed
          /\ (~players[id].isAlive /\ players'[id].isAlive)
               => /\ TickRan
                  /\ now >= players[id].respawnTime
          /\ (\E i \in Emitted(out', "PLAYER_RESPAWN") : out'[i].body.id = id)
               => /\ TickRan
                  /\ ~players[id].isAlive
                  /\ now >= players[id].respawnTime
          /\ HandlerRan({"move", "shot", "chat"})
               => /\ players'[id].health = players[id].health
                  /\ players'[id].isAlive = players[id].isAlive
                  /\ players'[id].score = players[id].score
                  /\ players'[id].respawnTime = players[id].respawnTime]_vars

\* A player that was killed has been respawned by the tick that just ran.
C26_Witness ==
    /\ last.op = "tick"
    /\ \E i \in Emitted(out, "PLAYER_RESPAWN") :
          /\ out[i].body.id \in Ids
          /\ players[out[i].body.id].isAlive
          /\ players[out[i].body.id].respawnTime > 0
          /\ now >= players[out[i].body.id].respawnTime

\* The player of a set of ids that joined first
C27_First(ids) == CHOOSE id \in ids : \A other \in ids : id <= other

\* What C27 says of one step
C27_Tick ==
    TickRan =>
     /\ \A i \in 1..Len(bullets) :
           (/\ C4_Live(i)
            /\ Cardinality(C4_Targets(bullets[i])) >= 2
            /\ \A j \in 1..Len(bullets) :
                  (j # i /\ C4_Live(j)) => C4_Targets(bullets[j]) = {})
           => LET first == C27_First(C4_Targets(bullets[i]))
              IN /\ bullets[i].id \notin BulletIds(bullets')
                 /\ players'[first].health < players[first].health
                 /\ \A id \in C4_Targets(bullets[i]) \ {first} :
                       players'[id].health = players[id].health
                 /\ \A k \in Emitted(out', "PLAYER_HIT") : out'[k].body.id = first
                 /\ Cardinality(Emitted(out', "PLAYER_HIT")) = 1
     /\ \A k \in Emitted(out', "PLAYER_HIT") :
           /\ players[out'[k].body.id].isAlive
           /\ \E i \in 1..Len(bullets) :
                 /\ bullets[i].id \notin BulletIds(bullets')
                 /\ bullets[i].playerId # out'[k].body.id

\* C27: in a tick, a live bullet that is the only one in contact with
\* anybody and is within the hit radius of two or more living non-owner
\* players is removed and damages exactly one of them, the one that joined
\* first; and whoever a tick reports hit was alive and is not the owner of a
\* bullet the tick removed.
C27_FirstJoinedIsHit ==
    [][C27_Tick]_vars

\* C28: the score of a player that stays in the game grows in a tick by the
\* number of kills that tick reports for bullets of that player, whether the
\* player is alive or dead, and changes in no other step; so a hit that does
\* not kill and a kill by the bullet of a player that has left change no
\* score.  Whoever a tick reports killed is dead with health 0 after it.
C28_ScoreCountsKills ==
    [][/\ \A id \in Ids \cap DOMAIN players' :
             players'[id].score
               = players[id].score
                 + (IF TickRan
                    THEN Cardinality({k \in Emitted(out', "PLAYER_HIT") :
                                         /\ out'[k].body.killed
                                         /\ out'[k].body.killerId = id})
                    ELSE 0)
       /\ \A k \in Emitted(out', "PLAYER_HIT") :
             out'[k].body.killed
               => /\ ~players'[out'[k].body.id].isAlive
                  /\ players'[out'[k].body.id].health = 0]_vars

\* The tick that just ran reports a kill by the bullet of a player that had
\* left the game.
C28_Witness ==
    /\ last.op = "tick"
    /\ \E k \in Emitted(out, "PLAYER_HIT") :
          /\ out[k].body.killed
          /\ out[k].body.killerId \notin Ids
          /\ ~players[out[k].body.id].isAlive

\* The PLAYER_HIT messages of msgs that report a hit on player id
C29_HitsOn(msgs, id) == {k \in Emitted(msgs, "PLAYER_HIT") : msgs[k].body.id = id}

\* What C29 says of one step
C29_Tick ==
    TickRan =>
      /\ \A id \in Ids :
            /\ players'[id].health < players[id].health
                 => C29_HitsOn(out', id) # {}
            /\ C29_HitsOn(out', id) # {}
                 => /\ players[id].health - players'[id].health
                         <= BULLET_DAMAGE * Cardinality(C29_HitsOn(out', id))
                    /\ \E k \in C29_HitsOn(out', id) :
                          /\ \A j \in C29_HitsOn(out', id) : j <= k
                          /\ out'[k].body.health = players'[id].health
      /\ \A k \in Emitted(out', "PLAYER_HIT") :
            /\ out'[k].to = "all"
            /\ out'[k].body.killed <=> out'[k].body.health = 0
            /\ out'[k].body.killed
                 => \E i \in 1..Len(bullets) :
                       /\ bullets[i].id \notin BulletIds(bullets')
                       /\ bullets[i].playerId = out'[k].body.killerId
            /\ \E g \in Emitted(out', "GAME_STATE") :
                  /\ k < g
                  /\ \E j \in C29_HitsOn(out', out'[k].body.id) :
                        /\ \A h \in C29_HitsOn(out', out'[k].body.id) : h <= j
                        /\ out'[g].body.players[out'[k].body.id].health
                             = out'[j].body.health

\* C29: a tick reports every loss of health with PLAYER_HIT messages to all
\* connections, one per hit; each carries the health the hit left (the last
\* one for a player the health the tick leaves), killed exactly when that
\* health is 0, and the bullet's owner as killerId when killed; the tick's
\* GAME_STATE comes after them and shows the same health.
C29_HitIsReported ==
    [][C29_Tick]_vars

\* C30: the tick at time t that kills a player leaves it dead with health 0
\* and respawnTime t + RESPAWN_TIME and does not respawn it; while the clock
\* is before its respawnTime a dead player that stays in the game stays dead
\* with health 0 and the same respawnTime, no tick reports a hit on it, and
\* its own PLAYER_MOVED and PLAYER_SHOT change nothing, emit nothing and do
\* not throw.
C30_DeadUntilRespawnTime ==
    [][\A id \in Ids \cap DOMAIN players' :
          /\ (TickRan /\ players[id].isAlive /\ ~players'[id].isAlive)
               => /\ players'[id].health = 0
                  /\ players'[id].respawnTime = now + RESPAWN_TIME
                  /\ \A k \in Emitted(out', "PLAYER_RESPAWN") : out'[k].body.id # id
          /\ (~players[id].isAlive /\ now < players[id].respawnTime)
               => /\ ~players'[id].isAlive
                  /\ players'[id].health = 0
                  /\ players'[id].respawnTime = players[id].respawnTime
                  /\ C29_HitsOn(out', id) = {}
                  /\ (HandlerRan({"move", "shot"}) /\ last'.conn = id)
                       => /\ players' = players
                          /\ bullets' = bullets
                          /\ out' = <<>>
                          /\ ~threw']_vars

\* A tick later than the one that killed a player has left a bullet in
\* flight within the hit radius of that player, who is still dead.
C30_Witness ==
    /\ last.op = "tick"
    /\ ~threw
    /\ \E id \in Ids :
          /\ ~players[id].isAlive
          /\ players[id].health = 0
          /\ now < players[id].respawnTime
          /\ now > players[id].respawnTime - RESPAWN_TIME
          /\ \E i \in 1..Len(bullets) :
                /\ bullets[i].playerId # id
                /\ DistSqLess(players[id].position, bullets[i].position, HitRadiusSq)

\* The bullets in flight that player id owns
C31_Owned(id) == {i \in 1..Len(bullets) : bullets[i].playerId = id}

\* C31: right after a tick every bullet in flight is at most BULLET_LIFETIME
\* old, no player owns more than BULLET_LIFETIME / RELOAD_TIME + 1 of them,
\* and no two of them have the same id.
C31_BulletsDoNotAccumulate ==
    last.op = "tick" =>
        /\ \A i \in 1..Len(bullets) : now - bullets[i].createdAt <= BULLET_LIFETIME
        /\ \A i \in 1..Len(bullets) :
              Cardinality(C31_Owned(bullets[i].playerId))
                 <= BULLET_LIFETIME \div RELOAD_TIME + 1
        /\ \A i, j \in 1..Len(bullets) : bullets[i].id = bullets[j].id => i = j

\* A tick has left a player with four bullets, the oldest of them exactly
\* BULLET_LIFETIME old.
C31_Witness ==
    /\ last.op = "tick"
    /\ \E i \in 1..Len(bullets) :
          /\ Cardinality(C31_Owned(bullets[i].playerId)) = BULLET_LIFETIME \div RELOAD_TIME + 1
          /\ now - bullets[i].createdAt = BULLET_LIFETIME

\* The sockets that are connecting or open
LiveSockets == {s \in 1..Len(webSockets) : webSockets[s] \in {"connecting", "open"}}

\* C32: at most one socket is connecting or open at any time, and at most
\* one reconnect is scheduled at any time, also after a failure that has
\* delivered both its error event and its close event.
C32_OneSocketOneReconnect ==
    /\ Cardinality(LiveSockets) <= 1
    /\ Len(timers) <= 1

\* C33: connectionAttempts, the number of connection attempts made since the
\* last successful open, never exceeds maxConnectionAttempts.
C33_AttemptsAreBounded ==
    nm.connectionAttempts <= maxConnectionAttempts

\* C34: while the client is connected and its current socket is open, the
\* close or error event of another, earlier socket leaves the client
\* connected, leaves the ping interval running and schedules no reconnect.
C34_LateEventIsIgnored ==
    [][(/\ ClientRan({"close", "closed by client", "error"})
        /\ nm.connected
        /\ nm.socket # 0
        /\ webSockets[nm.socket] = "open"
        /\ trail'.sock # nm.socket)
         => /\ nm'.connected
            /\ nm'.pingInterval = nm.pingInterval
            /\ timers' = timers]_vars

\* C35: the step that follows a call of disconnect(), made while connected
\* or while only a reconnect timer is pending, creates a socket only if it is
\* the application calling connect().
C35_DisconnectStopsReconnecting ==
    [][(trail.op = "disconnect" /\ Len(webSockets') > Len(webSockets))
          => ClientRan({"connect"})]_vars

\* C36: the 'open' listener sets connectionAttempts to 0 and leaves
\* reconnectDelay as it is; no step lowers reconnectDelay; and a reconnect
\* timer is set with a delay at least as long as every delay used before it.
C36_DelaySurvivesOpen ==
    [][/\ nm'.reconnectDelay >= nm.reconnectDelay
       /\ ClientRan({"open"}) =>
             /\ nm'.connectionAttempts = 0
             /\ nm'.reconnectDelay = nm.reconnectDelay
       /\ Len(timers') > Len(timers) =>
             \A i \in 1..Len(trail.scheduled) :
                 timers'[Len(timers')].delay >= trail.scheduled[i]]_vars

\* A connection made by a reconnect timer had opened and was then lost, and
\* the timer set for it waits longer than InitialReconnectDelay.
C36_Witness ==
    /\ trail.op = "close"
    /\ trail.code = AbnormalClosure
    /\ trail.sock >= 2
    /\ nm.connectionAttempts = 0
    /\ Len(trail.scheduled) >= 2
    /\ timers # <<>>
    /\ timers[Len(timers)].delay = trail.scheduled[Len(trail.scheduled)]
    /\ timers[Len(timers)].delay > InitialReconnectDelay * DelayScale

\* C37: the callback of a send delayed by debug.simulateLatency raises no
\* error, and a message it puts on the wire goes out on the socket that was
\* current when sendMessage queued it.
C37_DelayedSendKeepsItsSocket ==
    [][/\ ~ClientRan({"delayed send threw"})
       /\ ClientRan({"delayed send sent"})
            => wire'[Len(wire')].socket = trail'.sock]_vars
====
